---------------------------- MODULE Spec2Model ----------------------------
(***************************************************************************)
(* A model of the training harness of tensorflow-rl:                       *)
(*   src/base.py  Base_Agent (the run loop, nstep)                         *)
(*   src/dqn.py   the value-based Agent (train, policy, save)              *)
(*   src/ne1.py   the actor-critic Agent (train, policy) and NeuroEvolution*)
(* memory.py (Memory) and new_rewards.py (the reward engine) are not among *)
(* the sources; Memory is modelled from the specification's section 4.1,   *)
(* the reward engine is an input chosen nondeterministically.              *)
(*                                                                         *)
(* Five groups of behaviours are specified over one set of variables:      *)
(*   Spec        the run loop (RunStart, Iterate); SpecLong is the same    *)
(*               loop followed past its second buffer reconstruction       *)
(*   SpecNstep   the transition-building loop of run() on one window       *)
(*   SpecTrain   calls of store() and train() on a constructed agent;      *)
(*               SpecTrainFair adds that the caller keeps calling them     *)
(*   SpecPolicy  calls of policy(state, i)                                 *)
(*   SpecEvolve  NeuroEvolution: fitness assignment and evolve()           *)
(***************************************************************************)
EXTENDS Integers, Sequences, FiniteSets, TLC

VARIABLES
    types,        \* self.types: "DQN" or "PG"
    restore,      \* self.restore
    self_i,       \* self.i, the iteration of the last checkpoint (-1: never set)
    model,        \* weights of self.model (the online network)
    target_model, \* weights of self.target_model
    epoch,        \* ne1.Agent.epoch
    random,       \* self.random, the exploration counter of ne1.Agent.policy
    memory,       \* self.memory, the replay buffer
    last,         \* what the latest train() call did
    status,       \* where run() is: "constructed", "running", or the exception that ended it
    train,        \* the argument of run(train)
    stop,         \* the end of run()'s range(start, i)
    start,        \* run()'s start
    i,            \* run()'s loop index
    reset,        \* run()'s reset counter
    h,            \* run()'s window offset
    stored,       \* the transitions the latest iteration stored: [i, h, k], k = 0 if none
    trained,      \* the size of the buffer the latest iteration called train() on, -1 if it did not
    acted,        \* the branch of policy() the latest iteration took, "none" before the first
    horizon,      \* the number of iterations of run() that are explored
    rebuilds,     \* <<p, q>>: the ordinals (1 = first iteration of the run) of the last two
                  \*  buffer reconstructions, 0 where there was none yet
    step_size,    \* self.step_size, the window length
    n,            \* self.n
    rewards,      \* the per-step rewards of the window (SpecNstep)
    t,            \* the loop index of the transition-building loop (SpecNstep)
    mem,          \* self.mem, the deque of transitions built from the window (SpecNstep)
    pol,          \* what the latest policy() call returned (SpecPolicy)
    population,   \* NeuroEvolution.population
    fittest_individual, \* NeuroEvolution.fittest_individual
    ne_status     \* where the NeuroEvolution object is: "new", "evaluated", or how evolve() ended

agent_vars == <<types, restore, self_i, model, target_model, epoch, random, memory, last>>
run_vars == <<status, train, stop, start, i, reset, h, stored, trained, acted, rebuilds,
              horizon>>
window_vars == <<step_size, n, rewards, t, mem>>
ne_vars == <<population, fittest_individual, ne_status>>
vars == <<agent_vars, run_vars, window_vars, pol, ne_vars>>

(***************************************************************************)
(* Program constants                                                       *)
(***************************************************************************)
DefaultStepSize == 96
DefaultN == 3
Capacity == 5000000
BatchSize == 128
WarmUp == 50
ResetPeriod == 10000
EvalEvery == 5
SaveEvery == 500
TrainStop == 10000000
EvalStop == 6
EvolveFrom == 50
EvolveEvery == 2
RandomUntil == 100
NumActions == 3

(***************************************************************************)
(* Bounds of the model                                                     *)
(***************************************************************************)
\* iterations of run() that are explored from its start: under Spec, and under
\* SpecLong, which reaches the second buffer reconstruction
ShortIter == 120
MaxIter == 20002
\* len(self.x), the number of rows of the market data
XLen == 2500
\* abstract weight values 0..MaxW
MaxW == 1

\* window lengths 2..MaxT, n-step lengths 1..MaxN and per-step rewards 0..MaxReward
\* of the windows the transition-building loop is run on
MaxT == 5
MaxN == 4
MaxReward == 2

\* the number of consecutive iterations policy() is called for and the largest
\* number of rows of the state batch
MaxCalls == 10
MaxRows == 1

\* population sizes 1..MaxPop of NeuroEvolution, and the fitness values -1 and
\* 1..MaxFitness an evaluation may give
MaxPop == 10
MaxFitness == 1

Weights == 0..MaxW

Min(a, b) == IF a < b THEN a ELSE b

(***************************************************************************)
(* Memory (memory.py is not among the sources; modelled from spec 4.1).    *)
(* The model keeps the number of stored transitions only up to one batch,  *)
(* the one threshold sample() tests, and the leaves the latest             *)
(* batch_update rewrote. A run of consecutive tree indices first,          *)
(* first + 1, ..., first + count - 1 is written [first, count].            *)
(***************************************************************************)
NoLeaves == [first |-> 0, count |-> 0]

Memory(capacity) == [capacity |-> capacity, n |-> 0, updated |-> NoLeaves]

\* store k transitions
MemoryStore(m, k) == [m EXCEPT !.n = Min(m.n + k, BatchSize)]

\* sample(batch) fails when fewer than batch transitions were stored
MemoryCanSample(m, batch) == m.n >= batch

\* the tree indices sample(batch) returns: one leaf per segment; a leaf with data
\* index d has tree index d + capacity - 1
MemorySample(m, batch) == [first |-> m.capacity - 1, count |-> batch]

MemoryBatchUpdate(m, tree_idx) == [m EXCEPT !.updated = tree_idx]

\* the record of a train() call: the tree indices sample() returned and the
\* arguments of the batch_update calls, in order
NoTrain == [agent |-> "none", tree_idx |-> NoLeaves, batch_update |-> <<>>,
            evolved |-> FALSE, target_set |-> FALSE, raised |-> "none"]


(***************************************************************************)
(* train()                                                                 *)
(* Each returns the agent's fields after the call and the record of the    *)
(* call; g is the value the gradient step leaves in the network (the       *)
(* optimizer is an external collaborator, so any weight value).            *)
(***************************************************************************)
\* dqn.py Agent.train: sample, loss, batch_update, gradient step on self.model
DqnTrain(m, mdl, tgt, g) ==
    IF ~MemoryCanSample(m, BatchSize)
    THEN [memory |-> m, model |-> mdl, target_model |-> tgt,
          last |-> [NoTrain EXCEPT !.agent = "DQN", !.raised = "InsufficientDataError"]]
    ELSE LET tree_idx == MemorySample(m, BatchSize)
         IN  [memory |-> MemoryBatchUpdate(m, tree_idx),
              model |-> g,
              target_model |-> tgt,
              last |-> [NoTrain EXCEPT !.agent = "DQN", !.tree_idx = tree_idx,
                                       !.batch_update = <<tree_idx>>]]

\* ne1.py:173, the guard of the evolution branch
EvolveDue(ep) == ep >= EvolveFrom /\ ep % EvolveEvery = 0

\* ne1.py Agent.train: sample, losses, (evolution and soft update when due),
\* gradient step on the critic; it never calls batch_update. In the evolution
\* branch line 175 loads the first individual into the actor and line 177 then
\* unpacks the critic's three outputs into two names, which raises ValueError.
PgTrain(m, mdl, tgt, ep, g) ==
    IF ~MemoryCanSample(m, BatchSize)
    THEN [memory |-> m, model |-> mdl, target_model |-> tgt,
          last |-> [NoTrain EXCEPT !.agent = "PG", !.raised = "InsufficientDataError"]]
    ELSE LET tree_idx == MemorySample(m, BatchSize)
         IN  IF EvolveDue(ep)
             THEN [memory |-> m, model |-> g, target_model |-> tgt,
                   last |-> [NoTrain EXCEPT !.agent = "PG", !.tree_idx = tree_idx,
                                            !.raised = "ValueError"]]
             ELSE [memory |-> m, model |-> g, target_model |-> tgt,
                   last |-> [NoTrain EXCEPT !.agent = "PG", !.tree_idx = tree_idx]]

(***************************************************************************)
(* Base_Agent.run                                                          *)
(***************************************************************************)
\* np.random.randint(lo, hi) draws from lo..hi-1; the model draws the two ends
RandInt(lo, hi) == IF lo < hi THEN {lo, hi - 1} ELSE {}

\* int(len(x) - len(x) * 0.2 - step_size): the end of the training region
TrainHi(S) == (8 * XLen) \div 10 - S
\* int(len(x) - len(x) * 0.2): the start of the held-out last 20%
HeldLo == (8 * XLen) \div 10
\* len(x) - step_size * 5
HeldHi(S) == XLen - S * 5

\* base.py:118-122: the window offset of iteration j, given the previous one
NextOffsetRedrawAlways(j, prev, S) ==
    IF (j + 1) % EvalEvery = 0 THEN RandInt(HeldLo, HeldHi(S))
    ELSE RandInt(0, TrainHi(S))

NextOffset(j, prev, S) ==
    IF (j + 1) % EvalEvery = 0 THEN RandInt(HeldLo, HeldHi(S))
    ELSE IF j % EvalEvery # 0 THEN RandInt(0, TrainHi(S))
    ELSE {prev}

LoopRangeToEnd(T) == 0..(T - 1)

\* base.py:160: range(0, len(trend) - 1)
LoopRange(T) == 0..(T - 2)
\* base.py:161
Tau(tt, nn) == tt - nn + 1
\* the number of transitions the loop of base.py:160-165 appends
NumTransitions(T, nn) == Cardinality({tt \in LoopRange(T) : Tau(tt, nn) >= 0})

\* base.py:167: int(self.step_size * 0.5)
SampleSize(S) == S \div 2

ExploringOffByOne(j) == j % EvalEvery # 0

\* dqn.py:92, ne1.py:202: the iterations on which policy() explores
Exploring(j) == (j + 1) % EvalEvery # 0

\* dqn.py:92-95, ne1.py:200-210: the branch policy(state, j) takes. "argmax" and
\* "actor" return the network's action and draw nothing; "epsilon-greedy",
\* "noisy" and "random" call the random generator for every row.
PolicyBranch(ty, j) ==
    IF ty = "DQN"
    THEN IF Exploring(j) THEN "epsilon-greedy" ELSE "argmax"
    ELSE IF j > RandomUntil
         THEN IF Exploring(j) THEN "noisy" ELSE "actor"
         ELSE "random"

\* ne1.py:199-208: policy() advances self.random when it explores
PolicyRandom(ty, j, rnd) ==
    IF ty = "PG" /\ j > RandomUntil /\ Exploring(j) THEN rnd + 1 ELSE rnd

\* base.py:110-115
RunStart ==
    /\ status = "constructed"
    /\ \E tr \in BOOLEAN, h0 \in RandInt(0, TrainHi(step_size)) :
          LET end == IF tr THEN TrainStop ELSE EvalStop
              st0 == IF ~restore THEN 0 ELSE self_i
              st  == IF tr THEN st0 ELSE end - 1
          IN  /\ train' = tr
              /\ stop' = end
              /\ start' = st
              /\ i' = st
              /\ reset' = 0
              /\ h' = h0
              /\ status' = "running"
    /\ UNCHANGED <<agent_vars, stored, trained, acted, rebuilds, horizon, window_vars, pol,
                   ne_vars>>

\* base.py:117-195, one iteration of the loop with a value-based agent.
\* h1: the window offset; growth: whether the reward engine's growth_rate is
\* non-empty; g: the weights a gradient step leaves.
IterateDQN(h1, growth, g) ==
    \E built \in {NumTransitions(step_size, n)} :
    LET rebuilt == (reset + 1) % ResetPeriod = 0
        mem1    == IF rebuilt THEN Memory(Capacity) ELSE memory
        reset1  == IF rebuilt THEN 0 ELSE reset
        rb1     == IF rebuilt THEN <<rebuilds[2], i - start + 1>> ELSE rebuilds
        doStore == (i + 1) % EvalEvery # 0 /\ growth
        k       == SampleSize(step_size)
        tooFew  == doStore /\ k > built
        mem2    == IF doStore /\ ~tooFew THEN MemoryStore(mem1, k) ELSE mem1
        doTrain == ~tooFew /\ reset1 > WarmUp
    IN  \E tr \in {DqnTrain(mem2, model, target_model, g)} :
        LET failed == doTrain /\ tr.last.raised # "none"
            ended  == tooFew \/ failed
            saved  == ~ended /\ (i + 1) % SaveEvery = 0
        IN  /\ h' = h1
            /\ acted' = PolicyBranch(types, i)
            /\ rebuilds' = rb1
            /\ stored' = [i |-> i, h |-> h1, k |-> IF doStore /\ ~tooFew THEN k ELSE 0]
            /\ trained' = IF doTrain THEN mem2.n ELSE -1
            /\ memory' = IF doTrain THEN tr.memory ELSE mem2
            /\ model' = IF doTrain THEN tr.model ELSE model
            /\ target_model' = IF doTrain THEN tr.target_model ELSE target_model
            /\ last' = IF doTrain THEN tr.last ELSE last
            /\ status' = IF tooFew THEN "ValueError"
                         ELSE IF failed THEN tr.last.raised ELSE status
            /\ reset' = IF ended THEN reset1 ELSE reset1 + 1
            /\ i' = IF ended THEN i ELSE i + 1
            /\ restore' = IF saved THEN TRUE ELSE restore
            /\ self_i' = IF saved THEN i ELSE self_i
            /\ UNCHANGED <<types, epoch, random, train, stop, start, horizon>>

\* base.py:117-135 with the actor-critic agent: line 135 unpacks the three values
\* pg_action returns into five names, which raises ValueError in the first iteration
IteratePG(h1) ==
    /\ h' = h1
    /\ acted' = PolicyBranch(types, i)
    /\ random' = PolicyRandom(types, i, random)
    /\ status' = "ValueError"
    /\ UNCHANGED <<types, restore, self_i, model, target_model, epoch, memory, last,
                   train, stop, start, i, reset, stored, trained, rebuilds, horizon>>

\* base.py:146: growth_rate is read only when (i + 1) % 5 != 0
GrowthRead(j) == IF (j + 1) % EvalEvery # 0 THEN BOOLEAN ELSE {FALSE}
\* base.py:141-143, 173: a gradient step is taken only when train() is called
GradientRead(rs) ==
    IF (rs + 1) % ResetPeriod # 0 /\ rs > WarmUp THEN Weights ELSE {model}

Iterate ==
    /\ status = "running"
    /\ i < stop
    /\ i - start < horizon
    /\ \E h1 \in NextOffset(i, h, step_size) :
          IF types = "PG"
          THEN IteratePG(h1)
          ELSE \E growth \in GrowthRead(i), g \in GradientRead(reset) :
                  IterateDQN(h1, growth, g)
    /\ UNCHANGED <<window_vars, pol, ne_vars>>

NoPol == [agent |-> "none", i |-> -1, net |-> <<>>, action |-> <<>>, draws |-> 0]

\* Base_Agent.__init__ / Agent.build: the agent after construction. ne1.Agent.build
\* sets types = "PG" (ne1.py:118). dqn.Agent.build assigns no types although
\* base.py:47 and base.py:137 read it; the value-based agent is modelled with the
\* value "DQN" those lines test for. With restore the iteration of the checkpoint
\* is loaded, which save() wrote at an i with (i + 1) % 500 = 0.
AgentInit ==
    /\ types \in {"DQN", "PG"}
    /\ restore \in BOOLEAN
    /\ self_i = IF restore THEN SaveEvery - 1 ELSE -1
    /\ model = 0
    /\ target_model = model
    /\ epoch = 0
    /\ random = 0
    /\ memory = Memory(Capacity)
    /\ last = NoTrain

RunIdle ==
    /\ status = "constructed" /\ train = TRUE /\ stop = 0 /\ start = 0 /\ i = 0
    /\ reset = 0 /\ h = 0 /\ stored = [i |-> -1, h |-> 0, k |-> 0] /\ trained = -1
    /\ acted = "none"
    /\ rebuilds = <<0, 0>>

WindowIdle ==
    /\ step_size = DefaultStepSize /\ n = DefaultN
    /\ rewards = <<>> /\ t = 0 /\ mem = <<>>

NeIdle ==
    /\ population = <<>> /\ fittest_individual = <<>> /\ ne_status = "none"

Init ==
    /\ AgentInit
    /\ RunIdle
    /\ horizon = ShortIter
    /\ WindowIdle
    /\ pol = NoPol
    /\ NeIdle

Next == RunStart \/ Iterate

Spec == Init /\ [][Next]_vars

\* the long run starts fresh (no checkpoint)
InitLong ==
    /\ AgentInit
    /\ ~restore
    /\ RunIdle
    /\ horizon = MaxIter
    /\ WindowIdle
    /\ pol = NoPol
    /\ NeIdle

SpecLong == InitLong /\ [][Next]_vars

(***************************************************************************)
(* The transition-building loop of run() on one window (base.py:160-165)   *)
(***************************************************************************)
\* Python's s[a:b] for 0 <= a: the elements with 0-based index a..b-1 that exist
Slice(s, a, b) ==
    LET hi == Min(b, Len(s))
    IN  IF a >= hi THEN <<>> ELSE [k \in 1..(hi - a) |-> s[a + k]]

\* the sum nstep accumulates in discount_r, in hundredths: 0.99 * r[1] + ...
RECURSIVE DiscountR(_)
DiscountR(r) == IF Len(r) = 0 THEN 0 ELSE 99 * Head(r) + DiscountR(Tail(r))

\* base.py:84-88 Base_Agent.nstep: the loop rebinds the name r to each element in
\* turn and the function returns r, not discount_r: the last element of the
\* slice, or the (empty) slice itself when the loop body never ran
nstep(r) == IF Len(r) = 0 THEN r ELSE r[Len(r)]

\* base.py:160-165, one iteration of the loop over t; state and next_state are
\* the indices into df, action the index into q
BuildStep ==
    /\ status = "window"
    /\ t \in LoopRange(step_size)
    /\ LET tau == Tau(t, n)
       IN  mem' = IF tau >= 0
                  THEN Append(mem, [state |-> tau, action |-> tau,
                                    r |-> nstep(Slice(rewards, tau + 1, tau + n)),
                                    next_state |-> tau + n])
                  ELSE mem
    /\ t' = t + 1
    /\ UNCHANGED <<agent_vars, run_vars, step_size, n, rewards, pol, ne_vars>>

\* a fresh value-based agent, as far as the other specifications need one
AgentFresh ==
    /\ types = "DQN" /\ restore = FALSE /\ self_i = -1
    /\ model = 0 /\ target_model = 0 /\ epoch = 0 /\ random = 0
    /\ memory = Memory(Capacity) /\ last = NoTrain

\* the example of the specification's section 8
ExampleRewards == <<0, 1, 2, 3, 4>>

InitNstep ==
    /\ AgentFresh
    /\ train = TRUE /\ stop = 0 /\ start = 0 /\ i = 0 /\ reset = 0 /\ h = 0
    /\ stored = [i |-> -1, h |-> 0, k |-> 0] /\ trained = -1 /\ acted = "none"
    /\ rebuilds = <<0, 0>> /\ horizon = 0
    /\ status = "window"
    /\ step_size \in 2..MaxT
    /\ n \in 1..MaxN
    /\ rewards \in [1..step_size -> 0..MaxReward] \cup
                   {r \in {ExampleRewards} : Len(r) = step_size}
    /\ t = 0
    /\ mem = <<>>
    /\ pol = NoPol
    /\ NeIdle

NextNstep == BuildStep

SpecNstep == InitNstep /\ [][NextNstep]_vars

(***************************************************************************)
(* Claims about the transition-building loop (checked under SpecNstep)     *)
(***************************************************************************)
\* C2: for every reward sequence and every n >= 2 the return stored in the
\* transition for index tau equals the sum of 0.99 * r[i] over i in
\* [tau + 1, tau + n) (both sides in hundredths).
C2_NstepReturnIsDiscountedSum ==
    n >= 2 =>
        \A k \in 1..Len(mem) :
            /\ mem[k].r \in Int
            /\ 100 * mem[k].r =
                   DiscountR(Slice(rewards, mem[k].state + 1, mem[k].state + n))

\* C8: for 1 <= n < T the loop builds at most T - n transitions, one per index
\* tau = t - n + 1 >= 0, each with df[tau] as state and df[tau + n] as next state,
\* and every index it reads lies inside the window.
C8_TransitionsInsideWindow ==
    (1 <= n /\ n < step_size) =>
        /\ Len(mem) <= step_size - n
        /\ t > step_size - 2 => Len(mem) = step_size - n
        /\ \A k \in 1..Len(mem) :
              /\ mem[k].state = k - 1
              /\ mem[k].next_state = mem[k].state + n
              /\ 0 <= mem[k].state
              /\ mem[k].next_state <= step_size - 1

\* C8 witness: the loop has finished on a window that yields several transitions,
\* the last of which reads the last row of the window
C8_Witness ==
    /\ 1 <= n /\ n < step_size
    /\ t = step_size - 1
    /\ Len(mem) = step_size - n /\ Len(mem) >= 2
    /\ mem[Len(mem)].next_state = step_size - 1

(***************************************************************************)
(* Claims about the run loop (checked under Spec; C6 under SpecLong)        *)
(***************************************************************************)
\* C1: run() calls train() only when the current replay buffer holds at least one
\* batch (128) of transitions stored since that buffer was constructed, whatever
\* the reward engine returns.
C1_TrainOnlyOnFullBatch == trained # -1 => trained >= BatchSize

\* C6: the first buffer reconstruction happens on the 10,000th iteration of the
\* run, and any two consecutive reconstructions are exactly 10,000 iterations apart.
C6_RebuildEvery10000 ==
    /\ (rebuilds[1] = 0 /\ rebuilds[2] # 0) => rebuilds[2] = ResetPeriod
    /\ rebuilds[1] # 0 => rebuilds[2] - rebuilds[1] = ResetPeriod

\* C10 as stated: every transition stored into the replay buffer comes from a
\* window whose offset h lies in the training region, h < 0.8 * len(x) - step_size.
C10_StoredFromTrainingRegion ==
    stored.k > 0 => stored.h < TrainHi(step_size)

\* C10 as amended: evaluation iterations ((i + 1) mod 5 = 0) store nothing; an
\* iteration with i mod 5 = 0 that follows an evaluation iteration of the same run
\* stores transitions of the held-out window that evaluation iteration drew
\* (h >= 0.8 * len(x)); every other storing iteration stores transitions of a
\* window drawn from the training region.
C10_StoredWindows ==
    stored.k > 0 =>
        /\ (stored.i + 1) % EvalEvery # 0
        /\ IF stored.i % EvalEvery = 0 /\ stored.i > start
           THEN stored.h >= HeldLo /\ stored.h < HeldHi(step_size)
           ELSE stored.h >= 0 /\ stored.h < TrainHi(step_size)

\* C10 witness: an iteration has stored transitions of a held-out window
C10_Witness == stored.k > 0 /\ stored.h >= HeldLo /\ memory.n > 0

\* C11: run(train=False) is a pure evaluation pass: it executes exactly one loop
\* iteration, in which the policy acts deterministically (no exploration), train()
\* is not called, the checkpoint is not saved, and no transition is stored: the
\* replay buffer is left as it was constructed. Stated of a run(train=False) that
\* has come to the end of its range.
C11_EvalRunIsPure ==
    (~train /\ status = "running" /\ i = stop) =>
        /\ stop - start = 1
        /\ stored.i = start
        /\ acted \in {"argmax", "actor"}
        /\ trained = -1
        /\ self_i # stored.i
        /\ stored.k = 0
        /\ memory = Memory(Capacity)

(***************************************************************************)
(* Calls of memory.store() and train() on a constructed agent              *)
(***************************************************************************)
\* base.py:171 self.memory.store(memory[e], ae[e]): one transition is stored
Store ==
    /\ status = "agent"
    /\ memory' = MemoryStore(memory, 1)
    /\ UNCHANGED <<types, restore, self_i, model, target_model, epoch, random, last,
                   run_vars, window_vars, pol, ne_vars>>

\* dqn.py:65-83 / ne1.py:147-190: one call of self.train(); an exception leaves
\* the agent as the statements before it left it
TrainCall ==
    /\ status = "agent"
    /\ \E g \in Weights :
          \E tr \in {IF types = "DQN" THEN DqnTrain(memory, model, target_model, g)
                     ELSE PgTrain(memory, model, target_model, epoch, g)} :
              /\ memory' = tr.memory
              /\ model' = tr.model
              /\ target_model' = tr.target_model
              /\ last' = tr.last
    /\ UNCHANGED <<types, restore, self_i, epoch, random,
                   run_vars, window_vars, pol, ne_vars>>

InitTrain ==
    /\ AgentInit
    /\ ~restore
    /\ train = TRUE /\ stop = 0 /\ start = 0 /\ i = 0 /\ reset = 0 /\ h = 0
    /\ stored = [i |-> -1, h |-> 0, k |-> 0] /\ trained = -1 /\ acted = "none"
    /\ rebuilds = <<0, 0>> /\ horizon = 0
    /\ status = "agent"
    /\ WindowIdle
    /\ pol = NoPol
    /\ NeIdle

NextTrain == Store \/ TrainCall

SpecTrain == InitTrain /\ [][NextTrain]_vars

\* the caller keeps storing transitions and keeps calling train()
SpecTrainFair == SpecTrain /\ WF_vars(Store) /\ WF_vars(TrainCall)

(***************************************************************************)
(* Claims about train() (C3 under SpecTrain, C4 and C5 under SpecTrainFair)*)
(***************************************************************************)
\* C3: every train() call, of either agent, in which memory.sample(128) returned
\* its tree indices calls batch_update exactly once, with exactly those indices.
C3_TrainWritesPriorities ==
    (last.agent # "none" /\ last.raised = "none") =>
        last.batch_update = <<last.tree_idx>>

\* C4: for the actor-critic agent the iteration counter advances as training
\* proceeds, so evolution (with the soft target update) runs inside train()
\* again and again: infinitely often in a run that keeps training.
C4_EvolutionInfinitelyOften ==
    []<>(types = "PG" => last.evolved /\ last.target_set)

\* C5: for the value-based agent, in a run in which train() is called repeatedly,
\* the target network does not stay frozen at the weights copied at construction
\* (AgentInit: 0): train() eventually writes it (to or toward the online weights).
C5_TargetEventuallyUpdated ==
    <>(types = "DQN" => (last.target_set \/ target_model # 0))

(***************************************************************************)
(* policy(state, i)                                                        *)
(* Continuous quantities are in hundredths. The record of a call holds the *)
(* network's output (net), the returned action and the number of calls of  *)
(* the random generator.                                                   *)
(***************************************************************************)
\* np.random.rand(): three representative values of [0, 1)
URand == {0, 30, 70}
\* the rows of Q-values the online network may return
QRows == {<<0, 1, 0>>, <<1, 0, 1>>, <<0, 0, 1>>}
\* the rows the actor may return, the values of np.random.randn for a row, and
\* the values of Box(-1, 1, (2,)).sample()
ActorRows == {<<-50, 50>>, <<0, 0>>}
NoiseRows == {<<0, 0>>, <<1, -2>>}
BoxSamples == {<<-100, 100>>, <<25, -25>>}

\* np.argmax of a row: the first index (0-based) of the largest value
ArgMax(row) ==
    CHOOSE a \in 0..(Len(row) - 1) :
        /\ \A b \in 0..(Len(row) - 1) : row[b + 1] <= row[a + 1]
        /\ \A b \in 0..(a - 1) : row[b + 1] < row[a + 1]

\* the number of rows k of 1..rows with P[k]
CountTrue(P, rows) == Cardinality({k \in 1..rows : P[k]})

\* dqn.py:89-97: q: the network's output; u: the value of rand() for each row;
\* a: the value of randint(3) for each row that draws one
DqnPolicy(j, q, u, a) ==
    LET rows == Len(q)
        rnd  == [k \in 1..rows |-> ~(10 < u[k])]
    IN  IF Exploring(j)
        THEN [agent |-> "DQN", i |-> j, net |-> q,
              action |-> [k \in 1..rows |-> IF rnd[k] THEN a[k] ELSE ArgMax(q[k])],
              draws |-> rows + CountTrue(rnd, rows)]
        ELSE [agent |-> "DQN", i |-> j, net |-> q,
              action |-> [k \in 1..rows |-> ArgMax(q[k])],
              draws |-> 0]

\* ne1.py:199-212: p: the actor's output; z: the values of randn; u: the value of
\* rand() for each row; b: the value of aciton_space.sample() for each row
PgPolicy(j, rnd, p, z, u, b) ==
    LET rows == Len(p)
    IN  IF j > RandomUntil
        THEN IF Exploring(j)
             THEN LET eps1  == IF rnd % 5 # 0 THEN 10 ELSE 50
                      eps2  == IF rnd % 5 # 0 THEN 0 ELSE 50
                      noisy == [k \in 1..rows |->
                                   [c \in 1..2 |-> p[k][c] + eps1 * z[k][c]]]
                      keep  == [k \in 1..rows |-> eps2 < u[k]]
                  IN  [agent |-> "PG", i |-> j, net |-> p,
                       action |-> [k \in 1..rows |-> IF keep[k] THEN noisy[k] ELSE b[k]],
                       draws |-> 1 + rows + (rows - CountTrue(keep, rows))]
             ELSE [agent |-> "PG", i |-> j, net |-> p, action |-> p, draws |-> 0]
        ELSE [agent |-> "PG", i |-> j, net |-> p,
              action |-> [k \in 1..rows |-> b[k]], draws |-> rows]

\* base.py:133: the loop calls self.policy(df, i) once per iteration, i = 0, 1, ...
PolicyCall ==
    /\ status = "agent"
    /\ i - start < MaxCalls
    /\ i' = i + 1
    /\ random' = PolicyRandom(types, i, random)
    /\ \E rows \in 1..MaxRows :
          \E u \in [1..rows -> URand] :
             IF types = "DQN"
             THEN \E q \in [1..rows -> QRows], a \in [1..rows -> 0..(NumActions - 1)] :
                     pol' = DqnPolicy(i, q, u, a)
             ELSE \E p \in [1..rows -> ActorRows], z \in [1..rows -> NoiseRows],
                     b \in [1..rows -> BoxSamples] :
                     pol' = PgPolicy(i, random, p, z, u, b)
    /\ UNCHANGED <<types, restore, self_i, model, target_model, epoch, memory, last,
                   status, train, stop, start, reset, h, stored, trained, acted, rebuilds,
                   horizon, window_vars, ne_vars>>

NextPolicy == PolicyCall

\* the calls start at iteration 0, or shortly before the actor-critic agent's
\* random phase ends (ne1.py:200)
InitPolicy ==
    /\ AgentInit
    /\ ~restore
    /\ start \in {0, RandomUntil - 2}
    /\ i = start
    /\ train = TRUE /\ stop = 0 /\ reset = 0 /\ h = 0
    /\ stored = [i |-> -1, h |-> 0, k |-> 0] /\ trained = -1 /\ acted = "none"
    /\ rebuilds = <<0, 0>> /\ horizon = 0
    /\ status = "agent"
    /\ WindowIdle
    /\ pol = NoPol
    /\ NeIdle

SpecPolicy == InitPolicy /\ [][NextPolicy]_vars

(***************************************************************************)
(* Claims about policy() (checked under SpecPolicy)                        *)
(***************************************************************************)
\* the action the online network gives without any random draw
Greedy(c) ==
    IF c.agent = "DQN" THEN [k \in 1..Len(c.net) |-> ArgMax(c.net[k])] ELSE c.net

\* C7 as stated: for both agents and every i >= 0, policy(state, i) returns the
\* deterministic action of the online network, with no random draw, whenever
\* (i + 1) mod 5 = 0, and explores at random only when (i + 1) mod 5 # 0.
C7_DeterministicEveryFifth ==
    pol.agent # "none" =>
        /\ (pol.i + 1) % EvalEvery = 0 => (pol.draws = 0 /\ pol.action = Greedy(pol))
        /\ pol.draws > 0 => (pol.i + 1) % EvalEvery # 0

\* C7 as amended: the toggle holds for the value-based agent for every i >= 0 and
\* for the actor-critic agent for i > 100; for i <= 100 the actor-critic agent
\* returns a random sample of the action space for every row on every iteration,
\* the iterations with (i + 1) mod 5 = 0 included.
C7_DeterministicAfterWarmUp ==
    pol.agent # "none" =>
        IF pol.agent = "PG" /\ pol.i <= RandomUntil
        THEN /\ pol.draws = Len(pol.action)
             /\ pol.draws > 0
             /\ \A k \in 1..Len(pol.action) : pol.action[k] \in BoxSamples
        ELSE /\ (pol.i + 1) % EvalEvery = 0 =>
                    (pol.draws = 0 /\ pol.action = Greedy(pol))
             /\ (pol.i + 1) % EvalEvery # 0 => pol.draws > 0

\* C7 witness: the actor-critic agent has answered an evaluation iteration of its
\* first 101 iterations with a random sample that differs from the actor's output
C7_Witness ==
    /\ pol.agent = "PG" /\ pol.i <= RandomUntil /\ (pol.i + 1) % EvalEvery = 0
    /\ pol.draws > 0 /\ pol.action # pol.net

(***************************************************************************)
(* NeuroEvolution (ne1.py:52-109)                                          *)
(* An individual is [id, w, fitness]: id tells the Actor objects apart, w  *)
(* is its weight array, a row of columns.                                  *)
(***************************************************************************)
\* ne1.py:52-55 Actor(w), with the weights the k-th actor() network starts with
Actor(k) == [id |-> k, w |-> <<2 * k - 1, 2 * k>>, fitness |-> 0]

\* ne1.py:65: int(self.population_size * .4)
NWinners(P) == (4 * P) \div 10
\* ne1.py:66
NParents(P) == P - NWinners(P)

\* ne1.py:98-99: np.argsort(fitnesses)[::-1], the ascending stable order reversed;
\* the result maps each position 1..P to the index of the individual put there
ArgSortDescending(f) ==
    LET P == Len(f)
        asc(k) == 1 + Cardinality({j \in 1..P : f[j] < f[k] \/ (f[j] = f[k] /\ j < k)})
    IN  [pos \in 1..P |-> CHOOSE k \in 1..P : P + 1 - asc(k) = pos]

\* ne1.py:103: |f| / f is 0 / 0 = nan for a fitness of 0, and softmax then yields
\* nan for every individual
ProbsAreNaN(f) == \E k \in 1..Len(f) : f[k] = 0

\* ne1.py:86-95 crossover: the two children are made from copies of the parents'
\* weights (lines 87-88), then line 90 reads parent1.shape, an attribute an Actor
\* does not have: the call raises AttributeError and returns no children
crossover(parent1, parent2) ==
    [raised |-> "AttributeError",
     child1 |-> [id |-> 0, w |-> parent1.w, fitness |-> 0],
     child2 |-> [id |-> 0, w |-> parent2.w, fitness |-> 0]]

\* ne1.py:174-178 (or any caller): every individual is given a fitness (a mean
\* of critic estimates); an individual never evaluated keeps the fitness 0 of
\* Actor.__init__
Evaluate ==
    /\ ne_status = "new"
    /\ \E f \in [1..Len(population) -> {-1} \cup 1..MaxFitness] :
          population' = [k \in 1..Len(population) |-> [population[k] EXCEPT !.fitness = f[k]]]
    /\ ne_status' = "evaluated"
    /\ UNCHANGED <<agent_vars, run_vars, window_vars, pol, fittest_individual>>

\* ne1.py:97-109 evolve(): sort, keep the winners, choose the parents, cross the
\* first pair. Line 99 and 100 have assigned self.population and
\* self.fittest_individual when a later line raises; next_population and the
\* parents are locals. np.random.choice raises ValueError for nan probabilities;
\* parents[i + 1] raises IndexError when there is one parent only.
Evolve ==
    /\ ne_status \in {"new", "evaluated"}
    /\ LET P         == Len(population)
           fitnesses == [k \in 1..P |-> population[k].fitness]
           order     == ArgSortDescending(fitnesses)
           sorted    == [k \in 1..P |-> population[order[k]]]
       IN  /\ population' = sorted
           /\ fittest_individual' = sorted[1]
           /\ IF ProbsAreNaN(fitnesses)
              THEN ne_status' = "ValueError"
              ELSE IF NParents(P) < 2
                   THEN ne_status' = "IndexError"
                   ELSE \E a \in 1..P, b \in 1..P :
                           /\ a # b
                           /\ ne_status' = crossover(sorted[a], sorted[b]).raised
    /\ UNCHANGED <<agent_vars, run_vars, window_vars, pol>>

\* ne1.py:59-71 NeuroEvolution.__init__ and initialize
InitEvolve ==
    /\ AgentFresh
    /\ train = TRUE /\ stop = 0 /\ start = 0 /\ i = 0 /\ reset = 0 /\ h = 0
    /\ stored = [i |-> -1, h |-> 0, k |-> 0] /\ trained = -1 /\ acted = "none"
    /\ rebuilds = <<0, 0>> /\ horizon = 0
    /\ status = "ne"
    /\ WindowIdle
    /\ pol = NoPol
    /\ \E P \in 1..MaxPop : population = [k \in 1..P |-> Actor(k)]
    /\ fittest_individual = <<>>
    /\ ne_status = "new"

NextEvolve == Evaluate \/ Evolve

SpecEvolve == InitEvolve /\ [][NextEvolve]_vars

(***************************************************************************)
(* Claims about evolve() (checked under SpecEvolve)                        *)
(***************************************************************************)
\* C9: after one call of evolve() on a population of size P the population still
\* has P individuals, and exactly floor(0.4 * P) of the individuals it had before
\* the call, those of highest fitness, are carried over with unchanged weights
\* (stated for an evaluated population, every fitness non-zero, with
\* floor(0.4 * P) >= 1; the individuals made by __init__ have the ids 1..P).
C9_SurvivorsCarriedOver ==
    (/\ ne_status \notin {"none", "new", "evaluated"}
     /\ NWinners(Len(population)) >= 1
     /\ \A k \in 1..Len(population) : population[k].fitness # 0) =>
        LET P       == Len(population)
            carried == {k \in 1..P : population[k].id \in 1..P}
        IN  /\ ne_status = "returned"
            /\ Cardinality(carried) = NWinners(P)
            /\ \A k \in carried :
                  /\ population[k].w = Actor(population[k].id).w
                  /\ \A j \in 1..P : j \notin carried =>
                        population[j].fitness <= population[k].fitness

=============================================================================
